---- MODULE Spec2Model ----
(***************************************************************************)
(* Model of plugins/hookify/hooks/userpromptsubmit.py: the UserPromptSubmit *)
(* hook executor.  One run of the script is a sequence of steps (module    *)
(* bootstrap, guarded import, main's try / except / finally); the host may *)
(* invoke the script again with another CLAUDE_PLUGIN_ROOT.                *)
(***************************************************************************)
EXTENDS Integers, Sequences, FiniteSets, TLC

(* ------------------------------ bounds --------------------------------- *)
\* number of distinct rule sets the external loader may return
MaxRules == 2

(* --------------------------- the environment --------------------------- *)
\* Python's None (os.environ.get of an unset variable)
None == "<None>"

\* directory of the script (sys.path[0] when run as a script)
HooksDir == "/plugin/hooks"
\* dirname(dirname(abspath(__file__)))
ScriptRoot == "/plugin"
\* some other directory CLAUDE_PLUGIN_ROOT may point to
AltRoot == "/opt/alt"

Dirs == {HooksDir, ScriptRoot, AltRoot}

\* values of os.environ.get('CLAUDE_PLUGIN_ROOT')
EnvValues == {None, ""} \cup Dirs

\* what a directory offers for the package `core`
\*   missing : no core.config_loader / core.rule_engine below it
\*   ok      : both modules import
\*   broken  : a module is found but executing it raises (e.g. SyntaxError)
ModuleStates == {"missing", "ok", "broken"}

\* sys.path before the script touches it
BaseSysPath == <<HooksDir>>

(* ----------------------------- exceptions ------------------------------ *)
NoExc == [cls |-> "none", text |-> ""]

\* classes that do not derive from Exception
BaseOnly == {"SystemExit", "KeyboardInterrupt", "GeneratorExit"}

\* `except Exception` matches e
IsException(e) == e.cls # "none" /\ e.cls \notin BaseOnly

\* `except ImportError` matches e
IsImportError(e) == e.cls \in {"ImportError", "ModuleNotFoundError"}

\* what the external collaborators may raise
CollabExcs ==
  { [cls |-> "ValueError", text |-> "bad rule file"],
    [cls |-> "KeyboardInterrupt", text |-> ""] }

(* ------------------------------ JSON ----------------------------------- *)
\* a JSON object is a sequence of [k, v] members; {} is << >>
EmptyDoc == << >>

\* an unbound local of main()
Unbound == <<[k |-> "<unbound>", v |-> ""]>>
UnboundObj == <<[kty |-> "none", k |-> "", vty |-> "none", v |-> ""]>>

StdinTexts ==
  { "{\"prompt\": \"hello\"}", "{\"prompt\": \"rm -rf /\"}", "not-json", "" }

\* json.load(sys.stdin)
json_load(text) ==
  CASE text = "{\"prompt\": \"hello\"}" ->
         [ok |-> TRUE, value |-> <<[k |-> "prompt", v |-> "hello"]>>, exc |-> NoExc]
    [] text = "{\"prompt\": \"rm -rf /\"}" ->
         [ok |-> TRUE, value |-> <<[k |-> "prompt", v |-> "rm -rf /"]>>, exc |-> NoExc]
    [] OTHER ->
         [ok |-> FALSE, value |-> Unbound,
          exc |-> [cls |-> "JSONDecodeError",
                   text |-> "Expecting value: line 1 column 1 (char 0)"]]

\* Python objects the evaluator may return: dicts, as sequences of items
\* with the type of the key and of the value
PyObjects ==
  { << >>,
    <<[kty |-> "str", k |-> "systemMessage", vty |-> "str",
       v |-> "blocked: dangerous command"]>>,
    <<[kty |-> "int", k |-> "1", vty |-> "str", v |-> "x"]>>,
    <<[kty |-> "str", k |-> "tags", vty |-> "set", v |-> "set()"]>> }

\* json.dumps(obj): keys are written as strings, a set is not serializable
json_dumps(obj) ==
  IF \E i \in 1..Len(obj) : obj[i].vty \notin {"str"}
  THEN [ok |-> FALSE, doc |-> EmptyDoc,
        exc |-> [cls |-> "TypeError",
                 text |-> "Object of type set is not JSON serializable"]]
  ELSE [ok |-> TRUE,
        doc |-> [i \in 1..Len(obj) |-> [k |-> obj[i].k, v |-> obj[i].v]],
        exc |-> NoExc]

(* ------------------------------- state --------------------------------- *)
VARIABLES
  env,          \* CLAUDE_PLUGIN_ROOT of the current run
  fs,           \* Dirs -> ModuleStates
  stdin_text,   \* what the host puts on standard input
  loadB,        \* behaviour of load_rules
  ctorB,        \* behaviour of RuleEngine()
  evalB,        \* behaviour of RuleEngine.evaluate_rules
  ioFault,      \* "none", "print" (every print raises), "flush" (final flush fails)
  pc,           \* position of the run
  PLUGIN_ROOT,
  sys_path,
  input_data,
  rules,
  result,
  exc,          \* the exception in flight
  stdout,       \* documents written to standard output
  emitted,      \* which print statement wrote each of them
  status,       \* exit status of the process, -1 while running
  calls,        \* calls made to the collaborators
  raised,       \* the steps that raised, with what they raised
  stdin_read,
  imported,
  uncaught,     \* the process died of an uncaught exception
  prev          \* outcome of the previous run of the script

world == <<fs, stdin_text, loadB, ctorB, evalB, ioFault>>
locals == <<input_data, rules, result>>
vars == <<env, fs, stdin_text, loadB, ctorB, evalB, ioFault, pc, PLUGIN_ROOT,
          sys_path, input_data, rules, result, exc, stdout, emitted, status,
          calls, raised, stdin_read, imported, uncaught, prev>>

Returns(x) == [ret |-> TRUE, val |-> x, exc |-> NoExc]
Raises(e, dflt) == [ret |-> FALSE, val |-> dflt, exc |-> e]

LoadBehaviours ==
  {Returns(n) : n \in 1..MaxRules} \cup {Raises(e, 0) : e \in CollabExcs}
CtorBehaviours ==
  {Returns(0)} \cup {Raises(e, 0) : e \in CollabExcs}
EvalBehaviours ==
  {Returns(o) : o \in PyObjects} \cup {Raises(e, UnboundObj) : e \in CollabExcs}

NoRun == [ran |-> FALSE, env |-> None, imported |-> FALSE,
          stdout |-> << >>, status |-> -1]

\* a fresh process
Fresh ==
  /\ pc = "bootstrap"
  /\ PLUGIN_ROOT = None
  /\ sys_path = BaseSysPath
  /\ input_data = Unbound
  /\ rules = 0
  /\ result = UnboundObj
  /\ exc = NoExc
  /\ stdout = << >>
  /\ emitted = << >>
  /\ status = -1
  /\ calls = << >>
  /\ raised = {}
  /\ stdin_read = FALSE
  /\ imported = FALSE
  /\ uncaught = FALSE

World ==
  /\ env \in EnvValues
  /\ fs \in [Dirs -> ModuleStates]
  /\ fs[HooksDir] = "missing"
  /\ stdin_text \in StdinTexts
  /\ loadB \in LoadBehaviours
  /\ ctorB \in CtorBehaviours
  /\ evalB \in EvalBehaviours
  /\ prev = NoRun

\* standard output accepts every write
Init == World /\ ioFault = "none" /\ Fresh

\* standard output may refuse writes
InitIO == World /\ ioFault \in {"none", "print", "flush"} /\ Fresh

(* ------------------------------ helpers -------------------------------- *)
InSeq(x, s) == \E i \in 1..Len(s) : s[i] = x

\* lines 14-17
PluginRootOf(e) == IF e = None \/ e = "" THEN ScriptRoot ELSE e

\* lines 19-20
SysPathWith(root, path) == IF InSeq(root, path) THEN path ELSE <<root>> \o path

\* the import system: the first directory of the path that has the package
RECURSIVE Resolve(_, _)
Resolve(path, files) ==
  IF path = << >> THEN "missing"
  ELSE IF files[Head(path)] # "missing" THEN files[Head(path)]
  ELSE Resolve(Tail(path), files)

\* what the two import statements raise, if anything
ImportOutcome(path, files) ==
  CASE Resolve(path, files) = "ok" -> NoExc
    [] Resolve(path, files) = "missing" ->
         [cls |-> "ModuleNotFoundError", text |-> "No module named 'core'"]
    [] OTHER -> [cls |-> "SyntaxError", text |-> "invalid syntax"]

\* print(doc, file=sys.stdout)
PrintExc == [cls |-> "OSError", text |-> "[Errno 28] No space left on device"]
PrintRaises == ioFault = "print"

\* interpreter exit with `code`: the buffered output is flushed; a failing
\* flush loses it and turns the status into 120
ExitStatus(code, out) == IF ioFault = "flush" /\ out # << >> THEN 120 ELSE code
ExitStdout(out) == IF ioFault = "flush" THEN << >> ELSE out

\* lines 48-50
error_output_generic(e) == <<[k |-> "systemMessage", v |-> "Hookify error"]>>
error_output(e) == <<[k |-> "systemMessage", v |-> "Hookify error: " \o e.text]>>

\* line 38
LoadEventStop == "stop"
LoadEvent == "prompt"

Call(fn, ev, rs, inp) == [fn |-> fn, event |-> ev, rules |-> rs, input |-> inp]

(* ------------------------------ actions -------------------------------- *)
\* lines 14-20
BootstrapDebug ==
  /\ pc = "bootstrap"
  /\ PLUGIN_ROOT' = PluginRootOf(env)
  /\ sys_path' = SysPathWith(PluginRootOf(env), sys_path)
  /\ pc' = "import"
  /\ stdout' = IF env = None \/ env = "" THEN stdout
               ELSE Append(stdout, <<[k |-> "pluginRoot", v |-> env]>>)
  /\ UNCHANGED <<env, world, locals, exc, emitted, status, calls,
                 raised, stdin_read, imported, uncaught, prev>>
Bootstrap ==
  /\ pc = "bootstrap"
  /\ PLUGIN_ROOT' = PluginRootOf(env)
  /\ sys_path' = SysPathWith(PluginRootOf(env), sys_path)
  /\ pc' = "import"
  /\ UNCHANGED <<env, world, locals, exc, stdout, emitted, status, calls,
                 raised, stdin_read, imported, uncaught, prev>>

\* lines 22-25: the imports and the dispatch on what they raise
Import ==
  /\ pc = "import"
  /\ LET e == ImportOutcome(sys_path, fs) IN
       /\ imported' = (e = NoExc)
       /\ raised' = IF e = NoExc THEN raised
                    ELSE raised \cup {[step |-> "import", exc |-> e]}
       /\ IF e = NoExc
          THEN /\ pc' = "read_stdin"
               /\ UNCHANGED <<exc, status, uncaught, stdout>>
          ELSE IF IsImportError(e)
          THEN /\ pc' = "import_except"
               /\ exc' = e
               /\ UNCHANGED <<status, uncaught, stdout>>
          ELSE \* not an ImportError: nothing catches it
               /\ pc' = "done"
               /\ exc' = e
               /\ uncaught' = TRUE
               /\ status' = ExitStatus(1, stdout)
               /\ stdout' = ExitStdout(stdout)
  /\ UNCHANGED <<env, world, locals, PLUGIN_ROOT, sys_path, emitted, calls,
                 stdin_read, prev>>

\* lines 25-28: print {} and exit 0
ImportExcept ==
  /\ pc = "import_except"
  /\ pc' = "done"
  /\ IF PrintRaises
     THEN /\ exc' = PrintExc
          /\ raised' = raised \cup {[step |-> "print", exc |-> PrintExc]}
          /\ uncaught' = TRUE
          /\ status' = ExitStatus(1, stdout)
          /\ stdout' = ExitStdout(stdout)
          /\ UNCHANGED emitted
     ELSE /\ exc' = NoExc
          /\ emitted' = Append(emitted, "line27")
          /\ status' = ExitStatus(0, Append(stdout, EmptyDoc))
          /\ stdout' = ExitStdout(Append(stdout, EmptyDoc))
          /\ UNCHANGED <<raised, uncaught>>
  /\ UNCHANGED <<env, world, locals, PLUGIN_ROOT, sys_path, calls, stdin_read,
                 imported, prev>>

\* lines 33, 47, 53: an exception raised inside the try block goes to the
\* `except Exception` handler if it matches, else straight to `finally`
Raise(step, e) ==
  /\ exc' = e
  /\ raised' = raised \cup {[step |-> step, exc |-> e]}
  /\ pc' = IF IsException(e) THEN "except" ELSE "finally"

\* line 35
ReadStdinLenient ==
  /\ pc = "read_stdin"
  /\ stdin_read' = TRUE
  /\ input_data' = IF json_load(stdin_text).ok
                   THEN json_load(stdin_text).value ELSE EmptyDoc
  /\ pc' = "load_rules"
  /\ UNCHANGED <<exc, raised>>
  /\ UNCHANGED <<env, world, rules, result, PLUGIN_ROOT, sys_path, stdout,
                 emitted, status, calls, imported, uncaught, prev>>
ReadStdin ==
  /\ pc = "read_stdin"
  /\ stdin_read' = TRUE
  /\ LET r == json_load(stdin_text) IN
       IF r.ok
       THEN /\ input_data' = r.value
            /\ pc' = "load_rules"
            /\ UNCHANGED <<exc, raised>>
       ELSE /\ Raise("parse", r.exc)
            /\ UNCHANGED input_data
  /\ UNCHANGED <<env, world, rules, result, PLUGIN_ROOT, sys_path, stdout,
                 emitted, status, calls, imported, uncaught, prev>>

\* line 38
LoadRules ==
  /\ pc = "load_rules"
  /\ calls' = Append(calls, Call("load_rules", LoadEvent, 0, Unbound))
  /\ IF loadB.ret
     THEN /\ rules' = loadB.val
          /\ pc' = "new_engine"
          /\ UNCHANGED <<exc, raised>>
     ELSE /\ Raise("load_rules", loadB.exc)
          /\ UNCHANGED rules
  /\ UNCHANGED <<env, world, input_data, result, PLUGIN_ROOT, sys_path, stdout,
                 emitted, status, stdin_read, imported, uncaught, prev>>

\* line 41
NewEngine ==
  /\ pc = "new_engine"
  /\ calls' = Append(calls, Call("RuleEngine", "", 0, Unbound))
  /\ IF ctorB.ret
     THEN /\ pc' = "evaluate"
          /\ UNCHANGED <<exc, raised>>
     ELSE Raise("RuleEngine", ctorB.exc)
  /\ UNCHANGED <<env, world, locals, PLUGIN_ROOT, sys_path, stdout,
                 emitted, status, stdin_read, imported, uncaught, prev>>

\* line 42
EvaluateRules ==
  /\ pc = "evaluate"
  /\ calls' = Append(calls, Call("evaluate_rules", "", rules, input_data))
  /\ IF evalB.ret
     THEN /\ result' = evalB.val
          /\ pc' = "emit_result"
          /\ UNCHANGED <<exc, raised>>
     ELSE /\ Raise("evaluate_rules", evalB.exc)
          /\ UNCHANGED result
  /\ UNCHANGED <<env, world, input_data, rules, PLUGIN_ROOT, sys_path, stdout,
                 emitted, status, stdin_read, imported, uncaught, prev>>

\* line 45
EmitResultSkipEmpty ==
  /\ pc = "emit_result"
  /\ LET d == json_dumps(result) IN
       IF ~d.ok
       THEN /\ Raise("serialize", d.exc)
            /\ UNCHANGED <<stdout, emitted>>
       ELSE IF PrintRaises
       THEN /\ Raise("print", PrintExc)
            /\ UNCHANGED <<stdout, emitted>>
       ELSE /\ stdout' = IF d.doc = EmptyDoc THEN stdout ELSE Append(stdout, d.doc)
            /\ emitted' = IF d.doc = EmptyDoc THEN emitted ELSE Append(emitted, "line45")
            /\ pc' = "finally"
            /\ UNCHANGED <<exc, raised>>
  /\ UNCHANGED <<env, world, locals, PLUGIN_ROOT, sys_path, status, calls,
                 stdin_read, imported, uncaught, prev>>
EmitResult ==
  /\ pc = "emit_result"
  /\ LET d == json_dumps(result) IN
       IF ~d.ok
       THEN /\ Raise("serialize", d.exc)
            /\ UNCHANGED <<stdout, emitted>>
       ELSE IF PrintRaises
       THEN /\ Raise("print", PrintExc)
            /\ UNCHANGED <<stdout, emitted>>
       ELSE /\ stdout' = Append(stdout, d.doc)
            /\ emitted' = Append(emitted, "line45")
            /\ pc' = "finally"
            /\ UNCHANGED <<exc, raised>>
  /\ UNCHANGED <<env, world, locals, PLUGIN_ROOT, sys_path, status, calls,
                 stdin_read, imported, uncaught, prev>>

\* lines 47-51: the handler; an exception raised by its own print replaces
\* the handled one and is in flight when `finally` runs
Except ==
  /\ pc = "except"
  /\ pc' = "finally"
  /\ IF PrintRaises
     THEN /\ exc' = PrintExc
          /\ raised' = raised \cup {[step |-> "print", exc |-> PrintExc]}
          /\ UNCHANGED <<stdout, emitted>>
     ELSE /\ stdout' = Append(stdout, error_output(exc))
          /\ emitted' = Append(emitted, "line51")
          /\ exc' = NoExc
          /\ UNCHANGED raised
  /\ UNCHANGED <<env, world, locals, PLUGIN_ROOT, sys_path, status, calls,
                 stdin_read, imported, uncaught, prev>>

\* lines 53-55: sys.exit(0) raises SystemExit(0), which replaces whatever
\* exception was in flight
Finally ==
  /\ pc = "finally"
  /\ pc' = "done"
  /\ exc' = NoExc
  /\ status' = ExitStatus(0, stdout)
  /\ stdout' = ExitStdout(stdout)
  /\ UNCHANGED <<env, world, locals, PLUGIN_ROOT, sys_path, emitted, calls,
                 raised, stdin_read, imported, uncaught, prev>>

\* the host invokes the hook again, in a new process, with CLAUDE_PLUGIN_ROOT
\* set to e; standard input and the installed modules are the same
Reinvoke ==
  /\ pc = "done"
  /\ \E e \in EnvValues : env' = e
  /\ prev' = [ran |-> TRUE, env |-> env, imported |-> imported,
              stdout |-> stdout, status |-> status]
  /\ pc' = "bootstrap"
  /\ PLUGIN_ROOT' = None
  /\ sys_path' = BaseSysPath
  /\ input_data' = Unbound
  /\ rules' = 0
  /\ result' = UnboundObj
  /\ exc' = NoExc
  /\ stdout' = << >>
  /\ emitted' = << >>
  /\ status' = -1
  /\ calls' = << >>
  /\ raised' = {}
  /\ stdin_read' = FALSE
  /\ imported' = FALSE
  /\ uncaught' = FALSE
  /\ UNCHANGED world

Next ==
  \/ Bootstrap
  \/ Import
  \/ ImportExcept
  \/ ReadStdin
  \/ LoadRules
  \/ NewEngine
  \/ EvaluateRules
  \/ EmitResult
  \/ Except
  \/ Finally
  \/ Reinvoke

(* ------------------------------ properties ----------------------------- *)
Done == pc = "done"
RaisedAt(step) == \E x \in raised : x.step = step
Called(fn) == \E i \in 1..Len(calls) : calls[i].fn = fn
EvaluateReturned == Called("evaluate_rules") /\ ~RaisedAt("evaluate_rules")

\* doc is a JSON object with the single key systemMessage
IsErrorObject(doc) == Len(doc) = 1 /\ doc[1].k = "systemMessage"

\* the message v carries the text
HasText(v, text) == \E p \in {"", "Hookify error: ", "Error: "} : v = p \o text

\* standard input that is not a JSON document
InvalidJSON == {"not-json", ""}

\* doc is obj, member for member, with no key or value changed
SameObject(doc, obj) ==
  /\ Len(doc) = Len(obj)
  /\ \A i \in 1..Len(obj) :
       /\ obj[i].kty = "str" /\ obj[i].vty = "str"
       /\ doc[i].k = obj[i].k /\ doc[i].v = obj[i].v

\* C1: every run that has terminated has exit status 0, on every path
\* (import failure, parse failure, a collaborator raising, success).
C1_AlwaysExitZero == Done => status = 0

\* C2: a terminated run has written exactly one JSON document: {} when the
\* import failed, the evaluator's result on the normal path, an object with
\* key systemMessage when a step of main raised.
C2_ExactlyOneDocument ==
  Done =>
    /\ Len(stdout) = 1
    /\ \/ ~imported /\ stdout[1] = EmptyDoc
       \/ imported /\ raised = {} /\ emitted = <<"line45">>
       \/ imported /\ raised # {} /\ IsErrorObject(stdout[1])

\* C3: when the external modules cannot be imported the output is exactly {},
\* the exit status is 0, standard input was not read and no collaborator was
\* called.
C3_ImportFailureSilent ==
  (Done /\ ~imported) =>
    /\ stdout = <<EmptyDoc>>
    /\ status = 0
    /\ ~stdin_read
    /\ calls = << >>

C5_InvalidStdinReported ==
  (Done /\ imported /\ stdin_text \in InvalidJSON) =>
    /\ status = 0
    /\ Len(stdout) = 1
    /\ IsErrorObject(stdout[1])
    /\ stdout[1][1].v # ""
C5_Witness ==
  Done /\ imported /\ stdin_text = "not-json" /\ emitted = <<"line51">>

\* C6 (as claimed): if evaluate_rules returned, the output is exactly the
\* returned object, no key added, removed or rewritten, and the exit status
\* is 0.
C6_ResultPassedThrough ==
  (Done /\ imported /\ EvaluateReturned) =>
    /\ status = 0
    /\ Len(stdout) = 1
    /\ SameObject(stdout[1], result)

\* C6 (amended): if evaluate_rules returned an object that JSON can
\* serialize, the output is that object member for member (the empty object
\* included), a key that is not a string being written as its string form;
\* if the object cannot be serialized the output is the systemMessage error
\* object.  The exit status is 0.
C6_SerializableResultPassedThrough ==
  (Done /\ imported /\ EvaluateReturned) =>
    /\ status = 0
    /\ Len(stdout) = 1
    /\ IF \A i \in 1..Len(result) : result[i].vty = "str"
       THEN /\ emitted = <<"line45">>
            /\ Len(stdout[1]) = Len(result)
            /\ \A i \in 1..Len(result) :
                 stdout[1][i].k = result[i].k /\ stdout[1][i].v = result[i].v
       ELSE /\ emitted = <<"line51">>
            /\ IsErrorObject(stdout[1])
C6_Witness ==
  Done /\ imported /\ EvaluateReturned /\ result = << >> /\ stdout = <<EmptyDoc>>

\* C7: when writing a document to standard output fails (the {} of the import
\* guard, the result, the error object), the run still ends with status 0.
C7_ExitZeroWhenEmitFails ==
  (Done /\ (RaisedAt("print") \/ (ioFault = "flush" /\ emitted # << >>))) =>
    status = 0

\* C8: no run ends by an uncaught exception, whatever stage raised and
\* whatever the class of the exception.
C8_NoUncaughtException == ~uncaught

\* C9: two runs on the same standard input, with the same collaborators, in
\* both of which the imports succeed, write the same document and exit with
\* the same status however CLAUDE_PLUGIN_ROOT is set in each.
C9_PluginRootDoesNotChangeOutput ==
  (Done /\ prev.ran /\ imported /\ prev.imported) =>
    /\ stdout = prev.stdout
    /\ status = prev.status
C9_Witness ==
  /\ Done /\ prev.ran /\ imported /\ prev.imported
  /\ prev.env = None /\ env = AltRoot
  /\ stdout # << >>

\* the order of the calls, common to the claimed and the amended C10:
\* parsing precedes every call, load_rules("prompt") is called at most once,
\* then RuleEngine(), then evaluate_rules at most once with the rule set
\* load_rules returned and the parsed input; a failed step ends the sequence.
CallOrder ==
  /\ calls # << >> =>
       /\ stdin_read /\ ~RaisedAt("parse")
       /\ json_load(stdin_text).ok
  /\ Len(calls) <= 3
  /\ \A i \in 1..Len(calls) :
       calls[i].fn = <<"load_rules", "RuleEngine", "evaluate_rules">>[i]
  /\ Len(calls) >= 1 => calls[1].event = "prompt"
  /\ Len(calls) >= 2 => loadB.ret /\ ~RaisedAt("load_rules")
  /\ Len(calls) = 3 =>
       /\ ctorB.ret
       /\ calls[3].rules = loadB.val
       /\ calls[3].input = json_load(stdin_text).value
  /\ RaisedAt("parse") => calls = << >>
  /\ RaisedAt("load_rules") => ~Called("evaluate_rules")

\* C10 (as claimed): the steps are ordered and short-circuit, and the error
\* object is emitted only when parsing, load_rules, evaluate_rules or
\* serializing the result raised.
C10_OrderedShortCircuit ==
  /\ CallOrder
  /\ InSeq("line51", emitted) =>
       \E x \in raised :
         x.step \in {"parse", "load_rules", "evaluate_rules", "serialize"}

\* C10 (amended): the steps are ordered and short-circuit, and the error
\* object is emitted only when parsing, load_rules, constructing the
\* RuleEngine, evaluate_rules, or serializing or printing the result raised.
C10_OrderedShortCircuitWithEngine ==
  /\ CallOrder
  /\ InSeq("line51", emitted) =>
       \E x \in raised :
         x.step \in {"parse", "load_rules", "RuleEngine", "evaluate_rules",
                     "serialize", "print"}
C10_Witness ==
  Done /\ Len(calls) = 3 /\ RaisedAt("evaluate_rules") /\ emitted = <<"line51">>

Spec == Init /\ [][Next]_vars
SpecIO == InitIO /\ [][Next]_vars
====
